---- MODULE Spec2Model ----
(***************************************************************************)
(* The AutoTrader of src/Hannystars_17/autotrader.cc as a state machine.   *)
(*                                                                         *)
(* The engine is single threaded: every handler runs to completion, so a   *)
(* handler is one action.  The handler bodies are operators on a record    *)
(* `t` holding the members of the AutoTrader object plus `out`, the        *)
(* sequence of commands the handler has sent so far (SendInsertOrder,      *)
(* SendCancelOrder, SendHedgeOrder), so that the calls a handler makes     *)
(* compose in program order.  An action applies a handler to the object    *)
(* (This) and commits the result; a statement about what a callback does   *)
(* is stated of the handler's result in every reachable state.             *)
(*                                                                         *)
(* Integers.  The handlers mix `unsigned long` parameters with `long`      *)
(* casts.  Every stored value is written here as the two's-complement      *)
(* signed reading of its 64-bit pattern: additions, subtractions and the   *)
(* (long) casts agree with integer arithmetic on that reading (magnitudes  *)
(* in the model stay far below 2^63), and the only places where the        *)
(* unsigned reading decides something are the comparisons `x > 0` on an    *)
(* unsigned long, which hold exactly when the pattern is nonzero           *)
(* (UnsignedPositive).  A negative signed reading s of an unsigned long    *)
(* is the value 2^64 + s.                                                  *)
(***************************************************************************)
EXTENDS Integers, Sequences, FiniteSets, TLC

\* ------------------------------------------------------------ constants
POSITION_LIMIT == 100
TICK_SIZE_IN_CENTS == 100
MAX_UNHEDGED_LOTS == 10
UNHEDGED_LOTS_TIME_LIMIT == 57500
\* Venue price bounds of the ready_trader_go library (types.h).
MINIMUM_BID == 1
MAXIMUM_ASK == 2147483647

\* C++ integer division truncates toward zero.
TruncDiv(a, b) ==
    IF a >= 0 THEN a \div b ELSE -((-a) \div b)

MIN_BID_NEAREST_TICK ==
    TruncDiv(MINIMUM_BID + TICK_SIZE_IN_CENTS, TICK_SIZE_IN_CENTS) * TICK_SIZE_IN_CENTS
MAX_ASK_NEAREST_TICK ==
    TruncDiv(MAXIMUM_ASK, TICK_SIZE_IN_CENTS) * TICK_SIZE_IN_CENTS

\* --------------------------------------------------------------- bounds
\* Identifiers the engine may allocate: 1..MaxMessageId.
MaxMessageId == 3
\* The clock advances by the debounce duration, at most MaxClockSteps times.
MaxClockSteps == 1
\* Fill callbacks delivered for orders the engine has sent.
MaxFills == 3
\* Fill volume the venue delivers on an order whose sent volume is a
\* wrapped (negative) unsigned long.
WrappedFillCap == 50

ClockStep == UNHEDGED_LOTS_TIME_LIMIT
\* Best prices of a book update (0: that side of the book is empty).
AskPrices == {0, 10000, 10100}
BidPrices == {0, 9900, 9950}
\* Volumes of fill callbacks.
FillVolumes == {50}
\* <<fillVolume, remainingVolume>> of status callbacks.
StatusReports == {<<0, 0>>, <<50, 50>>}
\* Best prices of a book update of the hedging instrument.
EtfAskPrices == {10000}
EtfBidPrices == {9900}

\* ---------------------------------------------------------------- state
VARIABLES
    mPosition, mHedgePosition,
    mAskId, mAskPrice, mAskVolume,
    mBidId, mBidPrice, mBidVolume,
    mAsks, mBids,
    mNextMessageId,
    mNewAskVolume, mNewBidVolume,
    mStartTime,
    now,        \* std::chrono::steady_clock, in milliseconds
    sentIds,    \* identifiers of the insert and hedge orders sent, in send order
    hedgeIds,   \* identifiers of the hedge orders sent
    cancelled,  \* live identifiers a cancel request was sent for
    remaining,  \* per identifier, the volume the venue can still fill
    nFills,     \* fill callbacks delivered for sent orders
    span,       \* the current run of over-tolerance book updates
    debounce    \* what the book updates observed of the exposure so far

engine == <<mPosition, mHedgePosition, mAskId, mAskPrice, mAskVolume,
            mBidId, mBidPrice, mBidVolume, mAsks, mBids, mNextMessageId,
            mNewAskVolume, mNewBidVolume, mStartTime>>
vars == <<engine, now, sentIds, hedgeIds, cancelled, remaining, nFills, span,
          debounce>>

\* The AutoTrader object at the start of a handler.
This ==
    [mPosition |-> mPosition, mHedgePosition |-> mHedgePosition,
     mAskId |-> mAskId, mAskPrice |-> mAskPrice, mAskVolume |-> mAskVolume,
     mBidId |-> mBidId, mBidPrice |-> mBidPrice, mBidVolume |-> mBidVolume,
     mAsks |-> mAsks, mBids |-> mBids, mNextMessageId |-> mNextMessageId,
     mNewAskVolume |-> mNewAskVolume, mNewBidVolume |-> mNewBidVolume,
     mStartTime |-> mStartTime, out |-> <<>>]

\* The members of a record, without the commands sent.
Members(t) ==
    <<t.mPosition, t.mHedgePosition, t.mAskId, t.mAskPrice, t.mAskVolume,
      t.mBidId, t.mBidPrice, t.mBidVolume, t.mAsks, t.mBids, t.mNextMessageId,
      t.mNewAskVolume, t.mNewBidVolume, t.mStartTime>>

Min(a, b) == IF a <= b THEN a ELSE b
Max(a, b) == IF a >= b THEN a ELSE b
Abs(a) == IF a >= 0 THEN a ELSE -a

\* `x > 0` for an unsigned long x given by its signed reading.
UnsignedPositive(x) == x # 0

InsertCmd(id, side, price, volume) ==
    [type |-> "insert", id |-> id, side |-> side, price |-> price, volume |-> volume]
CancelCmd(id) ==
    [type |-> "cancel", id |-> id, side |-> "NONE", price |-> 0, volume |-> 0]
HedgeCmd(id, side, price, volume) ==
    [type |-> "hedge", id |-> id, side |-> side, price |-> price, volume |-> volume]

\* ------------------------------------------------------------- handlers
\* CancelAskOrder clearing the resting id without sending the cancel request.
CancelAskOrderUnsent(t, newAskPrice) ==
    IF t.mAskId # 0 /\ newAskPrice # 0 /\ newAskPrice # t.mAskPrice
    THEN [t EXCEPT !.mAskId = 0]
    ELSE t

CancelAskOrder(t, newAskPrice) ==
    IF t.mAskId # 0 /\ newAskPrice # 0 /\ newAskPrice # t.mAskPrice
    THEN [t EXCEPT !.out = Append(@, CancelCmd(t.mAskId)), !.mAskId = 0]
    ELSE t

\* CancelBidOrder without the comparison to the resting price.
CancelBidOrderAnyPrice(t, newBidPrice) ==
    IF t.mBidId # 0 /\ newBidPrice # 0
    THEN [t EXCEPT !.out = Append(@, CancelCmd(t.mBidId)), !.mBidId = 0]
    ELSE t

CancelBidOrder(t, newBidPrice) ==
    IF t.mBidId # 0 /\ newBidPrice # 0 /\ newBidPrice # t.mBidPrice
    THEN [t EXCEPT !.out = Append(@, CancelCmd(t.mBidId)), !.mBidId = 0]
    ELSE t

\* InsertAskOrder without the registration of the identifier in mAsks.
InsertAskOrderUnregistered(t, newAskPrice, requested) ==
    LET newAskVolume == Min(t.mPosition + POSITION_LIMIT - t.mAskVolume, requested)
    IN  IF t.mAskId = 0 /\ newAskPrice # 0 /\ UnsignedPositive(newAskVolume)
        THEN [t EXCEPT !.mAskId = t.mNextMessageId,
                       !.mNextMessageId = @ + 1,
                       !.mAskPrice = newAskPrice,
                       !.mAskVolume = newAskVolume,
                       !.out = Append(@, InsertCmd(t.mNextMessageId, "SELL",
                                                   newAskPrice, newAskVolume))]
        ELSE t

InsertAskOrder(t, newAskPrice, requested) ==
    LET newAskVolume == Min(t.mPosition + POSITION_LIMIT - t.mAskVolume, requested)
    IN  IF t.mAskId = 0 /\ newAskPrice # 0 /\ UnsignedPositive(newAskVolume)
        THEN [t EXCEPT !.mAskId = t.mNextMessageId,
                       !.mNextMessageId = @ + 1,
                       !.mAskPrice = newAskPrice,
                       !.mAskVolume = newAskVolume,
                       !.out = Append(@, InsertCmd(t.mNextMessageId, "SELL",
                                                   newAskPrice, newAskVolume)),
                       !.mAsks = @ \cup {t.mNextMessageId}]
        ELSE t

\* InsertBidOrder reading the counter without advancing it.
InsertBidOrderSameId(t, newBidPrice, requested) ==
    LET newBidVolume == Min(POSITION_LIMIT - t.mPosition - t.mBidVolume, requested)
    IN  IF t.mBidId = 0 /\ newBidPrice # 0 /\ UnsignedPositive(newBidVolume)
        THEN [t EXCEPT !.mBidId = t.mNextMessageId,
                       !.mBidPrice = newBidPrice,
                       !.mBidVolume = newBidVolume,
                       !.out = Append(@, InsertCmd(t.mNextMessageId, "BUY",
                                                   newBidPrice, newBidVolume)),
                       !.mBids = @ \cup {t.mNextMessageId}]
        ELSE t

InsertBidOrder(t, newBidPrice, requested) ==
    LET newBidVolume == Min(POSITION_LIMIT - t.mPosition - t.mBidVolume, requested)
    IN  IF t.mBidId = 0 /\ newBidPrice # 0 /\ UnsignedPositive(newBidVolume)
        THEN [t EXCEPT !.mBidId = t.mNextMessageId,
                       !.mNextMessageId = @ + 1,
                       !.mBidPrice = newBidPrice,
                       !.mBidVolume = newBidVolume,
                       !.out = Append(@, InsertCmd(t.mNextMessageId, "BUY",
                                                   newBidPrice, newBidVolume)),
                       !.mBids = @ \cup {t.mNextMessageId}]
        ELSE t

\* HedgeOrder sending the order without adjusting mHedgePosition.
HedgeOrderUnadjusted(t) ==
    IF t.mPosition + t.mHedgePosition > MAX_UNHEDGED_LOTS
    THEN LET askVolume == t.mPosition + t.mHedgePosition - MAX_UNHEDGED_LOTS
         IN  [t EXCEPT !.out = Append(@, HedgeCmd(t.mNextMessageId, "SELL",
                                                  MIN_BID_NEAREST_TICK, askVolume)),
                       !.mNextMessageId = @ + 1]
    ELSE IF t.mPosition + t.mHedgePosition < -MAX_UNHEDGED_LOTS
    THEN LET bidVolume == -(t.mPosition + t.mHedgePosition + MAX_UNHEDGED_LOTS)
         IN  [t EXCEPT !.out = Append(@, HedgeCmd(t.mNextMessageId, "BUY",
                                                  MAX_ASK_NEAREST_TICK, bidVolume)),
                       !.mNextMessageId = @ + 1]
    ELSE t

HedgeOrder(t) ==
    IF t.mPosition + t.mHedgePosition > MAX_UNHEDGED_LOTS
    THEN LET askVolume == t.mPosition + t.mHedgePosition - MAX_UNHEDGED_LOTS
         IN  [t EXCEPT !.out = Append(@, HedgeCmd(t.mNextMessageId, "SELL",
                                                  MIN_BID_NEAREST_TICK, askVolume)),
                       !.mNextMessageId = @ + 1,
                       !.mHedgePosition = @ - askVolume]
    ELSE IF t.mPosition + t.mHedgePosition < -MAX_UNHEDGED_LOTS
    THEN LET bidVolume == -(t.mPosition + t.mHedgePosition + MAX_UNHEDGED_LOTS)
         IN  [t EXCEPT !.out = Append(@, HedgeCmd(t.mNextMessageId, "BUY",
                                                  MAX_ASK_NEAREST_TICK, bidVolume)),
                       !.mNextMessageId = @ + 1,
                       !.mHedgePosition = @ + bidVolume]
    ELSE t

\* OrderStatusMessageHandler erasing the identifier from mAsks only.
OrderStatusMessageHandlerAsksOnly(t, clientOrderId, fillVolume, remainingVolume) ==
    IF remainingVolume = 0
    THEN LET u == IF clientOrderId = t.mAskId
                  THEN [t EXCEPT !.mAskId = 0, !.mAskVolume = 0]
                  ELSE IF clientOrderId = t.mBidId
                  THEN [t EXCEPT !.mBidId = 0, !.mBidVolume = 0]
                  ELSE t
         IN  [u EXCEPT !.mAsks = @ \ {clientOrderId}]
    ELSE IF UnsignedPositive(fillVolume)
    THEN IF clientOrderId = t.mAskId
         THEN [t EXCEPT !.mAskVolume = Max(t.mAskVolume - fillVolume, 0)]
         ELSE IF clientOrderId = t.mBidId
         THEN [t EXCEPT !.mBidVolume = Max(t.mBidVolume - fillVolume, 0)]
         ELSE t
    ELSE t

OrderStatusMessageHandler(t, clientOrderId, fillVolume, remainingVolume) ==
    IF remainingVolume = 0
    THEN LET u == IF clientOrderId = t.mAskId
                  THEN [t EXCEPT !.mAskId = 0, !.mAskVolume = 0]
                  ELSE IF clientOrderId = t.mBidId
                  THEN [t EXCEPT !.mBidId = 0, !.mBidVolume = 0]
                  ELSE t
         IN  [u EXCEPT !.mAsks = @ \ {clientOrderId},
                       !.mBids = @ \ {clientOrderId}]
    ELSE IF UnsignedPositive(fillVolume)
    THEN IF clientOrderId = t.mAskId
         THEN [t EXCEPT !.mAskVolume = Max(t.mAskVolume - fillVolume, 0)]
         ELSE IF clientOrderId = t.mBidId
         THEN [t EXCEPT !.mBidVolume = Max(t.mBidVolume - fillVolume, 0)]
         ELSE t
    ELSE t

\* ErrorMessageHandler looking the identifier up in mAsks only.
ErrorMessageHandlerAsksOnly(t, clientOrderId) ==
    IF clientOrderId # 0 /\ clientOrderId \in t.mAsks
    THEN OrderStatusMessageHandler(t, clientOrderId, 0, 0)
    ELSE t

ErrorMessageHandler(t, clientOrderId) ==
    IF clientOrderId # 0 /\ (clientOrderId \in t.mAsks \/ clientOrderId \in t.mBids)
    THEN OrderStatusMessageHandler(t, clientOrderId, 0, 0)
    ELSE t

\* (POSITION_LIMIT - mPosition) / 2 is an integer division; std::ceil and
\* std::floor then see an integral value and return it.
NewBidVolume(position) == TruncDiv(POSITION_LIMIT - position, 2)

\* OrderFilledMessageHandler looking the identifier up in the slots.
OrderFilledMessageHandlerRestingOnly(t, clientOrderId, volume) ==
    LET position == IF clientOrderId # 0 /\ clientOrderId = t.mAskId
                    THEN t.mPosition - volume
                    ELSE IF clientOrderId # 0 /\ clientOrderId = t.mBidId
                    THEN t.mPosition + volume
                    ELSE t.mPosition
    IN  [t EXCEPT !.mPosition = position,
                  !.mNewBidVolume = NewBidVolume(position),
                  !.mNewAskVolume = position + NewBidVolume(position)]

\* OrderFilledMessageHandler taking every identifier that is no live ask
\* for a bid.
OrderFilledMessageHandlerAnyId(t, clientOrderId, volume) ==
    LET position == IF clientOrderId \in t.mAsks THEN t.mPosition - volume
                    ELSE t.mPosition + volume
    IN  [t EXCEPT !.mPosition = position,
                  !.mNewBidVolume = NewBidVolume(position),
                  !.mNewAskVolume = position + NewBidVolume(position)]

OrderFilledMessageHandler(t, clientOrderId, volume) ==
    LET position == IF clientOrderId \in t.mAsks THEN t.mPosition - volume
                    ELSE IF clientOrderId \in t.mBids THEN t.mPosition + volume
                    ELSE t.mPosition
    IN  [t EXCEPT !.mPosition = position,
                  !.mNewBidVolume = NewBidVolume(position),
                  !.mNewAskVolume = position + NewBidVolume(position)]

\* HedgeCheck leaving mStartTime alone when the exposure is within tolerance.
HedgeCheckNoReset(t, clock) ==
    IF Abs(t.mPosition + t.mHedgePosition) <= MAX_UNHEDGED_LOTS
    THEN t
    ELSE IF clock - t.mStartTime >= UNHEDGED_LOTS_TIME_LIMIT
    THEN [HedgeOrder(t) EXCEPT !.mStartTime = clock]
    ELSE t

\* HedgeCheck with > for >= in the comparison to the time limit.
HedgeCheckStrict(t, clock) ==
    IF Abs(t.mPosition + t.mHedgePosition) <= MAX_UNHEDGED_LOTS
    THEN [t EXCEPT !.mStartTime = clock]
    ELSE IF clock - t.mStartTime > UNHEDGED_LOTS_TIME_LIMIT
    THEN [HedgeOrder(t) EXCEPT !.mStartTime = clock]
    ELSE t

\* The debounce of the quoted instrument's book update; `clock` is
\* steady_clock::now().
HedgeCheck(t, clock) ==
    IF Abs(t.mPosition + t.mHedgePosition) <= MAX_UNHEDGED_LOTS
    THEN [t EXCEPT !.mStartTime = clock]
    ELSE IF clock - t.mStartTime >= UNHEDGED_LOTS_TIME_LIMIT
    THEN [HedgeOrder(t) EXCEPT !.mStartTime = clock]
    ELSE t

\* OrderBookMessageHandler requoting the bid side before the ask side.
OrderBookMessageHandlerBidFirst(t, instrument, newAskPrice, newBidPrice, clock) ==
    IF instrument = "FUTURE"
    THEN LET b == InsertBidOrder(CancelBidOrder(t, newBidPrice), newBidPrice,
                                 t.mNewBidVolume)
             a == InsertAskOrder(CancelAskOrder(b, newAskPrice), newAskPrice,
                                 b.mNewAskVolume)
         IN  HedgeCheck(a, clock)
    ELSE t

\* OrderBookMessageHandler without the test of the instrument.
OrderBookMessageHandlerAnyInstrument(t, instrument, newAskPrice, newBidPrice, clock) ==
    LET a == InsertAskOrder(CancelAskOrder(t, newAskPrice), newAskPrice,
                            t.mNewAskVolume)
        b == InsertBidOrder(CancelBidOrder(a, newBidPrice), newBidPrice,
                            a.mNewBidVolume)
    IN  HedgeCheck(b, clock)

OrderBookMessageHandler(t, instrument, newAskPrice, newBidPrice, clock) ==
    IF instrument = "FUTURE"
    THEN LET a == InsertAskOrder(CancelAskOrder(t, newAskPrice), newAskPrice,
                                 t.mNewAskVolume)
             b == InsertBidOrder(CancelBidOrder(a, newBidPrice), newBidPrice,
                                 a.mNewBidVolume)
         IN  HedgeCheck(b, clock)
    ELSE t

TradeTicksMessageHandler(t) == t
HedgeFilledMessageHandler(t) == t
DisconnectHandler(t) == t

\* ---------------------------------------------------------- environment
RECURSIVE SeqFilter(_, _)
\* The commands of a sequence whose type is in `types`, in order.
SeqFilter(s, types) ==
    IF s = <<>> THEN <<>>
    ELSE IF Head(s).type \in types
         THEN <<Head(s)>> \o SeqFilter(Tail(s), types)
         ELSE SeqFilter(Tail(s), types)

Range(s) == {s[i] : i \in 1..Len(s)}

\* The commands of a sequence whose type is in `types`.
Cmds(s, types) == {c \in Range(s) : c.type \in types}

\* Volume the venue can fill on a quote order as sent; a wrapped
\* (negative) unsigned long is a volume beyond any fill the model delivers.
Capacity(volume) == IF volume < 0 THEN WrappedFillCap ELSE volume

\* The handler's result becomes the engine's state; the commands it sent
\* reach the venue.
Commit(result) ==
    \E t \in {result} :
    /\ mPosition' = t.mPosition
    /\ mHedgePosition' = t.mHedgePosition
    /\ mAskId' = t.mAskId
    /\ mAskPrice' = t.mAskPrice
    /\ mAskVolume' = t.mAskVolume
    /\ mBidId' = t.mBidId
    /\ mBidPrice' = t.mBidPrice
    /\ mBidVolume' = t.mBidVolume
    /\ mAsks' = t.mAsks
    /\ mBids' = t.mBids
    /\ mNextMessageId' = t.mNextMessageId
    /\ mNewAskVolume' = t.mNewAskVolume
    /\ mNewBidVolume' = t.mNewBidVolume
    /\ mStartTime' = t.mStartTime
    /\ sentIds' = sentIds \o [i \in 1..Len(SeqFilter(t.out, {"insert", "hedge"})) |->
                                  SeqFilter(t.out, {"insert", "hedge"})[i].id]
    /\ hedgeIds' = hedgeIds \cup {c.id : c \in Cmds(t.out, {"hedge"})}
    /\ cancelled' = (cancelled \cup {c.id : c \in Cmds(t.out, {"cancel"})})
                        \cap (t.mAsks \cup t.mBids)

\* No run of over-tolerance book updates is in progress.
NoSpan == [start |-> -1, end |-> -1, exposure |-> 0, hedges |-> 0]

\* No book update has observed the exposure and no hedge order was sent.
NotObserved == [within |-> -1, over |-> -1, hedged |-> FALSE]

\* ---------------------------------------------------------------- Init
Init ==
    /\ mPosition = 0
    /\ mHedgePosition = 0
    /\ mAskId = 0 /\ mAskPrice = 0 /\ mAskVolume = 0
    /\ mBidId = 0 /\ mBidPrice = 0 /\ mBidVolume = 0
    /\ mAsks = {} /\ mBids = {}
    /\ mNextMessageId = 1
    /\ mNewBidVolume = NewBidVolume(0)
    /\ mNewAskVolume = NewBidVolume(0)
    /\ mStartTime = 0
    /\ now = 0
    /\ sentIds = <<>>
    /\ hedgeIds = {}
    /\ cancelled = {}
    /\ remaining = [id \in 0..MaxMessageId |-> 0]
    /\ nFills = 0
    /\ span = NoSpan
    /\ debounce = NotObserved

\* -------------------------------------------------------------- actions
Tick ==
    /\ now + ClockStep <= MaxClockSteps * ClockStep
    /\ now' = now + ClockStep
    /\ UNCHANGED <<engine, sentIds, hedgeIds, cancelled, remaining, nFills, span,
                   debounce>>

\* The run of consecutive quoted-instrument book updates that found the
\* same over-tolerance exposure, with no fill on an order in between: the
\* times of its first and last update, the exposure they found and the
\* hedge orders sent in it.
SpanAfterBook(t) ==
    LET x == mPosition + mHedgePosition
        h == Len(SeqFilter(t.out, {"hedge"}))
    IN  IF Abs(x) <= MAX_UNHEDGED_LOTS THEN NoSpan
        ELSE IF span.start >= 0 /\ span.exposure = x
             THEN [span EXCEPT !.end = now, !.hedges = @ + h]
             ELSE [start |-> now, end |-> now, exposure |-> x, hedges |-> h]

\* What the quoted-instrument book updates have observed: the time of the
\* latest update that found the exposure within the tolerance, the time of
\* the first update that found it over the tolerance, and whether a hedge
\* order was sent with no fill on an order since.
DebounceAfterBook(t) ==
    LET x == mPosition + mHedgePosition
    IN  [within |-> IF Abs(x) <= MAX_UNHEDGED_LOTS THEN now ELSE debounce.within,
         over   |-> IF Abs(x) > MAX_UNHEDGED_LOTS /\ debounce.over < 0
                    THEN now ELSE debounce.over,
         hedged |-> debounce.hedged \/ Cmds(t.out, {"hedge"}) # {}]

OrderBook ==
    \E newAskPrice \in AskPrices, newBidPrice \in BidPrices :
        \E t \in {OrderBookMessageHandler(This, "FUTURE", newAskPrice, newBidPrice, now)} :
            /\ t.mNextMessageId <= MaxMessageId + 1
            /\ Commit(t)
            /\ remaining' = [id \in 0..MaxMessageId |->
                                IF \E c \in Cmds(t.out, {"insert"}) : c.id = id
                                THEN Capacity((CHOOSE c \in Cmds(t.out, {"insert"}) :
                                                  c.id = id).volume)
                                ELSE remaining[id]]
            /\ span' = SpanAfterBook(t)
            /\ debounce' = DebounceAfterBook(t)
            /\ UNCHANGED <<now, nFills>>

\* A book update for the hedging instrument.
OrderBookEtf ==
    \E newAskPrice \in EtfAskPrices, newBidPrice \in EtfBidPrices :
        /\ Commit(OrderBookMessageHandler(This, "ETF", newAskPrice, newBidPrice, now))
        /\ UNCHANGED <<now, remaining, nFills, span, debounce>>

\* A fill callback for a quote order the engine sent, within the volume
\* the order was sent with.
OrderFilled ==
    \E id \in Range(sentIds) \ hedgeIds, volume \in FillVolumes :
        /\ nFills < MaxFills
        /\ volume <= remaining[id]
        /\ Commit(OrderFilledMessageHandler(This, id, volume))
        /\ remaining' = [remaining EXCEPT ![id] = @ - volume]
        /\ nFills' = nFills + 1
        /\ span' = NoSpan
        /\ debounce' = [debounce EXCEPT !.hedged = FALSE]
        /\ UNCHANGED now

\* A fill callback whose identifier is no quote order of the engine: 0 or
\* a hedge order's.
OrderFilledUnknown ==
    \E id \in {0} \cup hedgeIds, volume \in FillVolumes :
        /\ Commit(OrderFilledMessageHandler(This, id, volume))
        /\ UNCHANGED <<now, remaining, nFills, span, debounce>>

OrderStatus ==
    \E id \in 0..(mNextMessageId - 1), report \in StatusReports :
        /\ Commit(OrderStatusMessageHandler(This, id, report[1], report[2]))
        /\ remaining' = IF report[2] = 0 THEN [remaining EXCEPT ![id] = 0]
                        ELSE remaining
        /\ UNCHANGED <<now, nFills, span, debounce>>

Error ==
    \E id \in 0..(mNextMessageId - 1) :
        /\ Commit(ErrorMessageHandler(This, id))
        /\ remaining' = [remaining EXCEPT ![id] = 0]
        /\ UNCHANGED <<now, nFills, span, debounce>>

TradeTicks ==
    /\ Commit(TradeTicksMessageHandler(This))
    /\ UNCHANGED <<now, remaining, nFills, span, debounce>>

HedgeFilled ==
    \E id \in hedgeIds :
        /\ Commit(HedgeFilledMessageHandler(This))
        /\ UNCHANGED <<now, remaining, nFills, span, debounce>>

Disconnect ==
    /\ Commit(DisconnectHandler(This))
    /\ UNCHANGED <<now, remaining, nFills, span, debounce>>

Next ==
    \/ Tick
    \/ OrderBook
    \/ OrderBookEtf
    \/ OrderFilled
    \/ OrderFilledUnknown
    \/ OrderStatus
    \/ Error
    \/ TradeTicks
    \/ HedgeFilled
    \/ Disconnect

Spec == Init /\ [][Next]_vars

TypeOK ==
    /\ mAskId \in 0..MaxMessageId
    /\ mBidId \in 0..MaxMessageId
    /\ mNextMessageId \in 1..(MaxMessageId + 1)
    /\ mAsks \subseteq 1..MaxMessageId
    /\ mBids \subseteq 1..MaxMessageId
    /\ mStartTime <= now

\* --------------------------------------------------------------- claims
RECURSIVE SumRemaining(_)
\* The volume the venue can still fill on the orders of a set of identifiers.
SumRemaining(ids) ==
    IF ids = {} THEN 0
    ELSE LET id == CHOOSE x \in ids : TRUE
         IN  remaining[id] + SumRemaining(ids \ {id})

\* The result of a quoted-instrument book update delivered now.
BookResult(newAskPrice, newBidPrice) ==
    OrderBookMessageHandler(This, "FUTURE", newAskPrice, newBidPrice, now)

\* C1: the position always stays within the position limit:
\* -POSITION_LIMIT <= mPosition <= POSITION_LIMIT.
C1_PositionWithinLimit ==
    /\ -POSITION_LIMIT <= mPosition
    /\ mPosition <= POSITION_LIMIT

\* C2: a full fill of everything still live stays inside the limit: the
\* position minus the remaining volume of the live asks is at least
\* -POSITION_LIMIT, and the position plus the remaining volume of the live
\* bids is at most POSITION_LIMIT.
C2_WorstCaseFillWithinLimit ==
    /\ mPosition - SumRemaining(mAsks) >= -POSITION_LIMIT
    /\ mPosition + SumRemaining(mBids) <= POSITION_LIMIT

\* C3 as stated: each live-order set holds at most one identifier.
C3_AtMostOneLiveOrderPerSide ==
    /\ Cardinality(mAsks) <= 1
    /\ Cardinality(mBids) <= 1

\* C3 as amended: at most one live ask and one live bid has no cancel
\* request sent for it, and it is the resting order of its side; every
\* other identifier of a live-order set is an order cancelled locally
\* whose cancel is not confirmed yet.
C3_AtMostOneUncancelledLiveOrder ==
    /\ mAsks \ cancelled \subseteq {mAskId}
    /\ mBids \ cancelled \subseteq {mBidId}
    /\ mAskId # 0 => mAskId \in mAsks \ cancelled
    /\ mBidId # 0 => mBidId \in mBids \ cancelled

\* A resting ask beside a live ask that was cancelled locally.
C3_Witness ==
    /\ mAskId # 0
    /\ mAsks \cap cancelled # {}

\* C4: every insert a book update sends has a volume v with
\* 1 <= v <= min(requested, headroom) (v an unsigned long: a negative
\* signed reading is a value above every headroom), and when the clamped
\* value is zero or negative nothing is inserted on that side and no
\* identifier is consumed for it.
C4_InsertVolumeWithinHeadroom ==
    \A newAskPrice \in AskPrices, newBidPrice \in BidPrices :
        LET t == BookResult(newAskPrice, newBidPrice)
            askClamp == Min(mNewAskVolume, mPosition + POSITION_LIMIT - mAskVolume)
            bidClamp == Min(mNewBidVolume, POSITION_LIMIT - mPosition - mBidVolume)
        IN  /\ \A c \in Cmds(t.out, {"insert"}) :
                   /\ 1 <= c.volume
                   /\ c.side = "SELL" => c.volume <= askClamp
                   /\ c.side = "BUY" => c.volume <= bidClamp
            /\ askClamp <= 0 => \A c \in Cmds(t.out, {"insert"}) : c.side # "SELL"
            /\ bidClamp <= 0 => \A c \in Cmds(t.out, {"insert"}) : c.side # "BUY"
            /\ t.mNextMessageId =
                   mNextMessageId + Cardinality(Cmds(t.out, {"insert", "hedge"}))

\* C5: the identifiers of the insert and hedge orders sent are strictly
\* increasing in send order, all below the counter, and a book update that
\* inserts both sides gives the ask id n and the bid id n + 1.
C5_IdentifiersStrictlyIncreasing ==
    /\ \A i \in 1..Len(sentIds) :
           /\ sentIds[i] < mNextMessageId
           /\ \A j \in 1..Len(sentIds) : i < j => sentIds[i] < sentIds[j]
    /\ \A newAskPrice \in AskPrices, newBidPrice \in BidPrices :
           LET ins == SeqFilter(BookResult(newAskPrice, newBidPrice).out, {"insert"})
           IN  Len(ins) = 2 =>
                   /\ ins[1].side = "SELL" /\ ins[1].id = mNextMessageId
                   /\ ins[2].side = "BUY" /\ ins[2].id = mNextMessageId + 1

\* Quote orders of both sides and a hedge order were sent.
C5_Witness ==
    /\ Len(sentIds) >= 3
    /\ hedgeIds # {}
    /\ mAsks # {} /\ mBids # {}
\* What C6 lists as unchanged by a price-unchanged book update, the id
\* counter aside: no cancel and no insert request, both resting-order
\* slots, the tracked volumes and the live-order sets.
QuotesUntouched(t) ==
    /\ Cmds(t.out, {"cancel", "insert"}) = {}
    /\ t.mAskId = mAskId /\ t.mAskPrice = mAskPrice /\ t.mAskVolume = mAskVolume
    /\ t.mBidId = mBidId /\ t.mBidPrice = mBidPrice /\ t.mBidVolume = mBidVolume
    /\ t.mAsks = mAsks /\ t.mBids = mBids

\* C6 as stated: with both sides resting, a book update at the resting
\* prices sends no cancel and no insert and leaves the slots, the tracked
\* volumes, the live-order sets and the id counter unchanged.
C6_UnchangedPriceUpdateIsNoOp ==
    (mAskId # 0 /\ mBidId # 0) =>
        LET t == BookResult(mAskPrice, mBidPrice)
        IN  /\ QuotesUntouched(t)
            /\ t.mNextMessageId = mNextMessageId

\* C6 as amended: with both sides resting, a book update at the resting
\* prices sends no cancel and no insert and leaves the slots, the tracked
\* volumes and the live-order sets unchanged; the id counter is unchanged
\* unless that update sends a hedge order, which takes one identifier.
C6_UnchangedPriceUpdateKeepsQuotes ==
    (mAskId # 0 /\ mBidId # 0) =>
        LET t == BookResult(mAskPrice, mBidPrice)
            hedges == SeqFilter(t.out, {"hedge"})
        IN  /\ QuotesUntouched(t)
            /\ Len(hedges) <= 1
            /\ t.mNextMessageId = mNextMessageId + Len(hedges)
            /\ Len(t.out) = Len(hedges)

\* Both sides rest and an update at the resting prices sends a hedge order.
C6_Witness ==
    /\ mAskId # 0 /\ mBidId # 0
    /\ Len(BookResult(mAskPrice, mBidPrice).out) = 1
    /\ BookResult(mAskPrice, mBidPrice).mNextMessageId = mNextMessageId + 1

\* C7: a status update with remaining volume 0 for order X leaves X in
\* neither live-order set and in neither resting-order slot, whether X was
\* the resting order or an order cancelled locally.
C7_ZeroRemainingRetiresOrder ==
    \A X \in 1..MaxMessageId, fillVolume \in {0, 50} :
        LET t == OrderStatusMessageHandler(This, X, fillVolume, 0)
        IN  /\ X \notin t.mAsks
            /\ X \notin t.mBids
            /\ t.mAskId # X
            /\ t.mBidId # X

\* A resting bid and a bid cancelled locally have both been retired.
C7_Witness ==
    \E X \in Range(sentIds) \ hedgeIds, Y \in Range(sentIds) \ hedgeIds :
        /\ X # Y
        /\ {X, Y} \cap (mAsks \cup mBids \cup {mAskId, mBidId}) = {}
        /\ mBidId # 0

\* C8: an error callback for an identifier of a live-order set gives the
\* state a status update (that id, fill volume 0, remaining volume 0)
\* gives and sends nothing; for the resting bid id it resets the bid slot
\* to none and its tracked volume to 0 and removes the id from the sets.
C8_ErrorIsZeroRemainingStatus ==
    \A id \in mAsks \cup mBids :
        LET t == ErrorMessageHandler(This, id)
        IN  /\ t = OrderStatusMessageHandler(This, id, 0, 0)
            /\ t.out = <<>>
            /\ id = mBidId =>
                   /\ t.mBidId = 0
                   /\ t.mBidVolume = 0
                   /\ id \notin t.mAsks \cup t.mBids
                   /\ t.mNextMessageId = mNextMessageId

\* A bid with a tracked volume rests, and an error for it clears the slot.
C8_Witness ==
    /\ mBidId \in mBids
    /\ mBidVolume > 0
    /\ ErrorMessageHandler(This, mBidId).mBidId = 0
    /\ ErrorMessageHandler(This, mBidId).mBidVolume = 0

\* An identifier that matches no tracked order: no resting order's and in
\* neither live-order set (0 is no order's identifier).
Untracked(id) ==
    /\ id = 0 \/ (id # mAskId /\ id # mBidId)
    /\ id \notin mAsks \cup mBids

\* C9: a status, fill or error callback whose identifier matches no
\* tracked order, identifier 0 and hedge identifiers included, leaves the
\* whole engine state unchanged and sends nothing.
C9_UnknownIdentifierIgnored ==
    \A id \in 0..MaxMessageId :
        Untracked(id) =>
            /\ \A report \in {<<0, 0>>, <<50, 0>>, <<50, 50>>, <<0, 50>>} :
                   OrderStatusMessageHandler(This, id, report[1], report[2]) = This
            /\ \A volume \in FillVolumes :
                   OrderFilledMessageHandler(This, id, volume) = This
            /\ ErrorMessageHandler(This, id) = This

\* C10: when the quoted-instrument book updates found the same exposure
\* MAX_UNHEDGED_LOTS + k (or -MAX_UNHEDGED_LOTS - k), k > 0, over a span
\* at least as long as the debounce duration with no fill in between,
\* exactly one hedge order was sent over that span; and the update that
\* completes such a span sends one hedge SELL of volume k at the floor
\* price and lowers mHedgePosition by k (one hedge BUY of volume k at the
\* ceiling price, raising mHedgePosition by k).
C10_OneHedgeAfterDebounce ==
    /\ (span.start >= 0 /\ span.end - span.start >= UNHEDGED_LOTS_TIME_LIMIT)
           => span.hedges = 1
    /\ (/\ span.start >= 0
        /\ span.exposure = mPosition + mHedgePosition
        /\ now - span.start >= UNHEDGED_LOTS_TIME_LIMIT) =>
           \A newAskPrice \in AskPrices, newBidPrice \in BidPrices :
               LET t == BookResult(newAskPrice, newBidPrice)
                   hedges == SeqFilter(t.out, {"hedge"})
                   k == Abs(span.exposure) - MAX_UNHEDGED_LOTS
               IN  /\ span.hedges = 0
                   /\ Len(hedges) = 1
                   /\ hedges[1].volume = k
                   /\ span.exposure > 0 =>
                          /\ hedges[1].side = "SELL"
                          /\ hedges[1].price = MIN_BID_NEAREST_TICK
                          /\ t.mHedgePosition = mHedgePosition - k
                   /\ span.exposure < 0 =>
                          /\ hedges[1].side = "BUY"
                          /\ hedges[1].price = MAX_ASK_NEAREST_TICK
                          /\ t.mHedgePosition = mHedgePosition + k

\* A span of over-tolerance updates as long as the debounce duration has
\* ended with its hedge sell sent.
C10_Witness ==
    /\ span.start >= 0
    /\ span.end - span.start >= UNHEDGED_LOTS_TIME_LIMIT
    /\ span.exposure > MAX_UNHEDGED_LOTS
    /\ span.hedges = 1
    /\ mPosition + mHedgePosition = MAX_UNHEDGED_LOTS
\* Readings of the clock a handler can run at: it never runs backwards.
ClockReadings ==
    {now, now + UNHEDGED_LOTS_TIME_LIMIT - 1, now + UNHEDGED_LOTS_TIME_LIMIT}

\* The hedge orders a quoted-instrument book update delivered at `clock` sends.
HedgesAt(newAskPrice, newBidPrice, clock) ==
    SeqFilter(OrderBookMessageHandler(This, "FUTURE", newAskPrice, newBidPrice,
                                      clock).out, {"hedge"})

\* C11: once a quoted-instrument book update has found the exposure within
\* the tolerance at time t, no book update earlier than t + the debounce
\* duration sends a hedge order, whatever was observed before t and after.
C11_NoHedgeBeforeDebounceAfterReset ==
    debounce.within >= 0 =>
        \A newAskPrice \in AskPrices, newBidPrice \in BidPrices,
           clock \in ClockReadings :
            clock < debounce.within + UNHEDGED_LOTS_TIME_LIMIT =>
                HedgesAt(newAskPrice, newBidPrice, clock) = <<>>

\* The exposure was found over the tolerance, then within it at time t,
\* and over it again by an update at t, a debounce duration after the
\* first over-tolerance observation; no hedge was sent.
C11_Witness ==
    /\ debounce.over >= 0
    /\ debounce.over < debounce.within
    /\ now - debounce.over >= UNHEDGED_LOTS_TIME_LIMIT
    /\ now < debounce.within + UNHEDGED_LOTS_TIME_LIMIT
    /\ Abs(mPosition + mHedgePosition) > MAX_UNHEDGED_LOTS
    /\ span.start >= debounce.within
    /\ span.hedges = 0
    /\ hedgeIds = {}
\* Volumes of a fill callback that takes part of a resting order.
PartialFillVolumes == {4, 5}

\* ceil(n / 2) and floor(n / 2) of the exact quotient.
CeilHalf(n) == (n + 1) \div 2
FloorHalf(n) == n \div 2

\* C12: after a fill callback that leaves the position at p, the next bid
\* size is ceil((POSITION_LIMIT - p) / 2) when p < 0 and
\* floor((POSITION_LIMIT - p) / 2) when p >= 0, the division being exact,
\* and the next ask size is p + the next bid size.
C12_NextQuoteVolumesLean ==
    \A id \in mAsks \cup mBids, volume \in PartialFillVolumes \cup FillVolumes :
        volume <= remaining[id] =>
            LET t == OrderFilledMessageHandler(This, id, volume)
                p == t.mPosition
            IN  /\ t.mNewBidVolume = IF p < 0 THEN CeilHalf(POSITION_LIMIT - p)
                                              ELSE FloorHalf(POSITION_LIMIT - p)
                /\ t.mNewAskVolume = p + t.mNewBidVolume
\* C13: a book update for the hedging instrument, a trade-ticks update, a
\* hedge-filled callback and a disconnect callback send no command and
\* leave the whole engine state unchanged, mStartTime included; the
\* status, fill and error callbacks send no command and leave mStartTime
\* alone too, so only quoted-instrument book updates send commands or
\* touch the timer.
C13_OnlyQuotedBookUpdatesAct ==
    /\ \A newAskPrice \in AskPrices \cup EtfAskPrices,
          newBidPrice \in BidPrices \cup EtfBidPrices, clock \in ClockReadings :
           OrderBookMessageHandler(This, "ETF", newAskPrice, newBidPrice, clock) = This
    /\ TradeTicksMessageHandler(This) = This
    /\ HedgeFilledMessageHandler(This) = This
    /\ DisconnectHandler(This) = This
    /\ \A id \in 0..MaxMessageId :
           /\ \A report \in StatusReports :
                  LET t == OrderStatusMessageHandler(This, id, report[1], report[2])
                  IN  t.out = <<>> /\ t.mStartTime = mStartTime
           /\ \A volume \in FillVolumes :
                  LET t == OrderFilledMessageHandler(This, id, volume)
                  IN  t.out = <<>> /\ t.mStartTime = mStartTime
           /\ LET t == ErrorMessageHandler(This, id)
              IN  t.out = <<>> /\ t.mStartTime = mStartTime

\* A book update would requote both sides, send a hedge order and restart
\* the timer if it were for the quoted instrument.
C13_Witness ==
    \E newAskPrice \in EtfAskPrices, newBidPrice \in EtfBidPrices :
        /\ mAskId # 0 /\ mBidId # 0
        /\ Cmds(BookResult(newAskPrice, newBidPrice).out, {"cancel"}) # {}
        /\ Cmds(BookResult(newAskPrice, newBidPrice).out, {"insert"}) # {}
        /\ Cmds(BookResult(newAskPrice, newBidPrice).out, {"hedge"}) # {}
        /\ BookResult(newAskPrice, newBidPrice).mStartTime # mStartTime
        /\ OrderBookMessageHandler(This, "ETF", newAskPrice, newBidPrice, now) = This
\* C14: a hedge order is sent only when the exposure has been over the
\* tolerance for at least the debounce duration: when the exposure is
\* within the tolerance and a fill callback now takes it over, a book
\* update delivered less than the debounce duration after that fill sends
\* no hedge order.
C14_HedgeOnlyAfterSustainedExposure ==
    Abs(mPosition + mHedgePosition) <= MAX_UNHEDGED_LOTS =>
        \A id \in mAsks \cup mBids, volume \in FillVolumes,
           newAskPrice \in AskPrices, newBidPrice \in BidPrices,
           clock \in ClockReadings :
            (volume <= remaining[id] /\ clock - now < UNHEDGED_LOTS_TIME_LIMIT) =>
                LET u == OrderFilledMessageHandler(This, id, volume)
                    t == OrderBookMessageHandler(u, "FUTURE", newAskPrice,
                                                 newBidPrice, clock)
                IN  SeqFilter(t.out, {"hedge"}) = <<>>
\* C15: a book update that sends a hedge order sends one and leaves
\* mPosition + mHedgePosition at exactly MAX_UNHEDGED_LOTS (after a sell)
\* or -MAX_UNHEDGED_LOTS (after a buy); and once a hedge order has been
\* sent, no book update sends another, however late it is delivered and
\* whether or not the hedge was confirmed, until a fill callback on an
\* order has changed mPosition.
C15_NoDuplicateHedge ==
    /\ \A newAskPrice \in AskPrices, newBidPrice \in BidPrices,
          clock \in ClockReadings :
           LET t == OrderBookMessageHandler(This, "FUTURE", newAskPrice,
                                            newBidPrice, clock)
               hedges == SeqFilter(t.out, {"hedge"})
           IN  /\ Len(hedges) <= 1
               /\ Len(hedges) = 1 =>
                      /\ hedges[1].side = "SELL" =>
                             t.mPosition + t.mHedgePosition = MAX_UNHEDGED_LOTS
                      /\ hedges[1].side = "BUY" =>
                             t.mPosition + t.mHedgePosition = -MAX_UNHEDGED_LOTS
               /\ debounce.hedged => hedges = <<>>
    /\ debounce.hedged => Abs(mPosition + mHedgePosition) = MAX_UNHEDGED_LOTS

\* A hedge buy was sent, no fill has come since, and the hedge is still
\* the latest order sent.
C15_Witness ==
    /\ debounce.hedged
    /\ mPosition + mHedgePosition = -MAX_UNHEDGED_LOTS
    /\ sentIds # <<>>
    /\ sentIds[Len(sentIds)] \in hedgeIds
\* The ask side has to move: an ask rests, the book's best ask is nonzero
\* and differs from the resting price, and the next ask volume is positive.
AskMoves(newAskPrice) ==
    mAskId # 0 /\ newAskPrice # 0 /\ newAskPrice # mAskPrice /\ mNewAskVolume > 0

BidMoves(newBidPrice) ==
    mBidId # 0 /\ newBidPrice # 0 /\ newBidPrice # mBidPrice /\ mNewBidVolume > 0

\* The insert volumes the clamp to the headroom leaves.
ClampedAskVolume == Min(mPosition + POSITION_LIMIT - mAskVolume, mNewAskVolume)
ClampedBidVolume == Min(POSITION_LIMIT - mPosition - mBidVolume, mNewBidVolume)

\* The cancel and insert commands of a handler's result, in send order.
QuoteCmds(t) == SeqFilter(t.out, {"cancel", "insert"})

\* The result starts with the cancel of the resting ask followed by the
\* insert of a new ask at the new price under the next identifier, and the
\* ask slot holds that identifier and price.
AskReplaced(t, newAskPrice) ==
    /\ Len(QuoteCmds(t)) >= 2
    /\ QuoteCmds(t)[1] = CancelCmd(mAskId)
    /\ QuoteCmds(t)[2].type = "insert"
    /\ QuoteCmds(t)[2].side = "SELL"
    /\ QuoteCmds(t)[2].price = newAskPrice
    /\ QuoteCmds(t)[2].id = mNextMessageId
    /\ t.mAskId = mNextMessageId
    /\ t.mAskPrice = newAskPrice

\* The same for the bid, whose two commands are the last ones: every
\* command of the ask side precedes them.
BidReplaced(t, newBidPrice) ==
    LET n == Len(QuoteCmds(t))
    IN  /\ n >= 2
        /\ QuoteCmds(t)[n - 1] = CancelCmd(mBidId)
        /\ QuoteCmds(t)[n].type = "insert"
        /\ QuoteCmds(t)[n].side = "BUY"
        /\ QuoteCmds(t)[n].price = newBidPrice
        /\ QuoteCmds(t)[n].id = t.mNextMessageId
                                   - Len(SeqFilter(t.out, {"hedge"})) - 1
        /\ QuoteCmds(t)[n].id >= mNextMessageId
        /\ t.mBidId = QuoteCmds(t)[n].id
        /\ t.mBidPrice = newBidPrice

PositionsKept(t) ==
    t.mPosition = mPosition /\ t.mHedgePosition = mHedgePosition

\* C17: mPosition changes only in a fill callback whose identifier is in a
\* live-order set, down by the fill volume for an ask and up for a bid;
\* mHedgePosition changes only in the book update that sends a hedge
\* order; the status, error, hedge-filled, trade-ticks and disconnect
\* callbacks, a fill callback for any other identifier and a book update
\* that sends no hedge change neither.
C17_PositionFrame ==
    /\ \A id \in 0..MaxMessageId, volume \in FillVolumes \cup PartialFillVolumes :
           LET t == OrderFilledMessageHandler(This, id, volume)
           IN  /\ t.mHedgePosition = mHedgePosition
               /\ t.mPosition = IF id \in mAsks THEN mPosition - volume
                                ELSE IF id \in mBids THEN mPosition + volume
                                ELSE mPosition
    /\ \A id \in 0..MaxMessageId :
           /\ \A report \in StatusReports :
                  PositionsKept(OrderStatusMessageHandler(This, id, report[1],
                                                          report[2]))
           /\ PositionsKept(ErrorMessageHandler(This, id))
    /\ PositionsKept(HedgeFilledMessageHandler(This))
    /\ PositionsKept(TradeTicksMessageHandler(This))
    /\ PositionsKept(DisconnectHandler(This))
    /\ \A newAskPrice \in AskPrices, newBidPrice \in BidPrices,
          clock \in ClockReadings :
           /\ PositionsKept(OrderBookMessageHandler(This, "ETF", newAskPrice,
                                                    newBidPrice, clock))
           /\ LET t == OrderBookMessageHandler(This, "FUTURE", newAskPrice,
                                               newBidPrice, clock)
              IN  /\ t.mPosition = mPosition
                  /\ t.mHedgePosition # mHedgePosition
                         <=> SeqFilter(t.out, {"hedge"}) # <<>>

\* A fill on an order and a hedge order have moved both positions, and
\* orders of both sides are still live.
C17_Witness ==
    /\ mPosition # 0
    /\ mHedgePosition # 0
    /\ hedgeIds # {}
    /\ nFills >= 1
    /\ mAsks # {} /\ mBids # {}
\* X is the newest ask (bid) the engine has sent and is still live: every
\* later identifier is a live bid's (ask's) or a hedge order's.
NewestAsk(X) ==
    /\ X \in mAsks
    /\ \A id \in Range(sentIds) : id > X => id \in mBids \cup hedgeIds
NewestBid(X) ==
    /\ X \in mBids
    /\ \A id \in Range(sentIds) : id > X => id \in mAsks \cup hedgeIds

\* C18: a status update with remaining volume 0 for the newest order X of
\* a side leaves that side's slot empty and its tracked volume 0, also
\* when X had been cancelled locally before the status arrived.
C18_ZeroRemainingClearsSide ==
    \A X \in 1..MaxMessageId, fillVolume \in {0, 50} :
        LET t == OrderStatusMessageHandler(This, X, fillVolume, 0)
        IN  /\ NewestAsk(X) => (t.mAskId = 0 /\ t.mAskVolume = 0)
            /\ NewestBid(X) => (t.mBidId = 0 /\ t.mBidVolume = 0)
\* Quote orders the engine sent that a zero-remaining status or an error
\* has retired.
Retired == (Range(sentIds) \ hedgeIds) \ (mAsks \cup mBids)

\* C19: a fill callback for an order cancelled locally and not yet retired
\* (its id in no slot but still in a live-order set) changes mPosition by
\* the fill volume in the order's direction; a fill callback for a retired
\* order leaves mPosition unchanged, so a fill delivered after the
\* zero-remaining status of its order is lost.
C19_FillOnCancelledOrder ==
    /\ \A id \in cancelled, volume \in FillVolumes \cup PartialFillVolumes :
           LET t == OrderFilledMessageHandler(This, id, volume)
               u == OrderFilledMessageHandler(
                        OrderStatusMessageHandler(This, id, 0, 0), id, volume)
           IN  /\ id # mAskId /\ id # mBidId
               /\ id \in mAsks => t.mPosition = mPosition - volume
               /\ id \in mBids => t.mPosition = mPosition + volume
               /\ id \in mAsks \cup mBids
               /\ u.mPosition = mPosition
    /\ \A id \in Retired, volume \in FillVolumes \cup PartialFillVolumes :
           OrderFilledMessageHandler(This, id, volume).mPosition = mPosition

\* An ask cancelled locally can still be filled while another order has
\* been retired.
C19_Witness ==
    /\ Retired # {}
    /\ \E id \in cancelled \cap mAsks :
           /\ mAskId # id
           /\ remaining[id] >= 50
           /\ OrderFilledMessageHandler(This, id, 50).mPosition = mPosition - 50
\* C20: a resting ask id other than 0 is in mAsks, a resting bid id other
\* than 0 is in mBids, no identifier is in both sets, and every identifier
\* in a slot or a set is smaller than mNextMessageId.
C20_SlotsAndLiveSetsConsistent ==
    /\ mAskId # 0 => mAskId \in mAsks
    /\ mBidId # 0 => mBidId \in mBids
    /\ mAsks \cap mBids = {}
    /\ \A id \in mAsks \cup mBids \cup {mAskId, mBidId} : id < mNextMessageId

\* Both sides rest and the ask set also holds an ask cancelled locally.
C20_Witness ==
    /\ mAskId # 0 /\ mBidId # 0
    /\ Cardinality(mAsks) = 2
    /\ mBids = {mBidId}
    /\ mNextMessageId = MaxMessageId + 1
====
